---- MODULE Spec2Model ----
(***************************************************************************)
(* A model of nassl/_nassl/nassl_OCSP_RESPONSE.c: the OCSP_RESPONSE        *)
(* extension type (tp_new, as_text, as_der_bytes, basic_verify) and the    *)
(* module_add_OCSP_RESPONSE registration.  Each C statement that calls     *)
(* into OpenSSL or the Python runtime is one step; the library calls are   *)
(* modelled by what they return and what they change.                      *)
(***************************************************************************)
EXTENDS Integers, Sequences, FiniteSets, TLC

\* ------------------------------------------------------------------ bounds
\* Longest peer certificate chain attached to an instance.
MaxChainLen == 2
\* Most positional (and most keyword) arguments passed to the constructor.
MaxNewArgs == 1

\* Width of unsigned int in the model.  The build's unsigned int has 32
\* bits; the model keeps the wrap-around of the conversion with a narrower
\* word, every length the model produces being far below 2 ^ (UIntBits - 1).
UIntBits == 16

\* ------------------------------------------------------- program constants
UIntMod == 2 ^ UIntBits
\* OCSP_RESPONSE_STATUS_SUCCESSFUL (openssl/ocsp.h), compared at line 113.
OCSP_RESPONSE_STATUS_SUCCESSFUL == 0

\* The values OCSPResponseStatus can take (RFC 6960; 4 is not used).
Statuses == {0, 1, 2, 3, 5, 6}

\* ------------------------------------------------------------ certificates
\* CA1 and CA2 are self-issued CA certificates, Responder is a delegated
\* responder certificate issued by CA1, Leaf is the server's certificate,
\* issued by CA1 as well.
CA1 == "CA1"
CA2 == "CA2"
Responder == "Responder"
Leaf == "Leaf"
Certs == {CA1, CA2, Responder, Leaf}
Issuer(c) == IF c = CA2 THEN CA2 ELSE CA1

Range(s) == {s[k] : k \in 1..Len(s)}
SeqsUpTo(S, n) == UNION {[1..k -> S] : k \in 0..n}

\* ------------------------------------------------------------------- state
VARIABLES
  ocspResp,       \* self->ocspResp: the parsed OCSP response
  peerCertChain,  \* self->peerCertChain: STACK_OF(X509) or NULL
  tp_new,         \* nassl_OCSP_RESPONSE_Type.tp_new
  moduleState,    \* "unloaded", "failed" (PyType_Ready < 0) or "added"
  pc,             \* position of the one running call
  op,             \* the method being run
  newArgs,        \* args / kwds handed to tp_new
  caFilePath,     \* basic_verify: the trust-anchor file named by the argument
  respStatus,     \* basic_verify: respStatus
  trustedCAs,     \* basic_verify: X509_STORE * or NULL
  basicResp,      \* basic_verify: OCSP_BASICRESP * or NULL
  certNum,        \* basic_verify: certNum
  i,              \* basic_verify: i
  verifyRes,      \* basic_verify: verifyRes
  memBio,         \* as_text: BIO * or NULL
  txtLen,         \* as_text: txtLen
  txtBuffer,      \* as_text: char * or NULL
  ocspBuf,        \* as_der_bytes: ocspBuf
  ocspRespLen,    \* as_der_bytes: ocspRespLen (unsigned int)
  ret,            \* the value the call returned, and the exception it set
  cnt,            \* library calls made by the running call
  derSeen         \* the bytes of the first successful as_der_bytes

selfVars == <<ocspResp, peerCertChain>>
typeVars == <<tp_new, moduleState>>
bvVars == <<caFilePath, respStatus, trustedCAs, basicResp, certNum, i, verifyRes>>
atVars == <<memBio, txtLen, txtBuffer>>
derVars == <<ocspBuf, ocspRespLen>>
vars == <<ocspResp, peerCertChain, tp_new, moduleState, pc, op, newArgs,
          caFilePath, respStatus, trustedCAs, basicResp, certNum, i, verifyRes,
          memBio, txtLen, txtBuffer, ocspBuf, ocspRespLen, ret, cnt, derSeen>>

\* ------------------------------------------------------------ value shapes
NullChain == [null |-> TRUE, certs |-> <<>>]
NullStore == [null |-> TRUE, certs |-> {}]
NullBasic == [null |-> TRUE, certs |-> <<>>, signer |-> "none", sigOK |-> FALSE]
NullBuf == [null |-> TRUE, data |-> <<>>]
NoFile == [loadOK |-> FALSE, cas |-> {}]

\* What a call returns: kind "pending" while it runs, then "NULL" (with the
\* exception exc set), "None", "bytes" (len bytes, data unless uninit) or
\* "object".
Pending == [kind |-> "pending", exc |-> "", len |-> 0, data |-> <<>>, uninit |-> FALSE]
Raise(e) == [kind |-> "NULL", exc |-> e, len |-> 0, data |-> <<>>, uninit |-> FALSE]
ReturnNone == [kind |-> "None", exc |-> "", len |-> 0, data |-> <<>>, uninit |-> FALSE]
ReturnObject == [kind |-> "object", exc |-> "", len |-> 0, data |-> <<>>, uninit |-> FALSE]
ReturnBytes(d) == [kind |-> "bytes", exc |-> "", len |-> Len(d), data |-> d, uninit |-> FALSE]
ReturnUninit(n) == [kind |-> "bytes", exc |-> "", len |-> n, data |-> <<>>, uninit |-> TRUE]

\* raise_OpenSSL_error() (nassl_errors): sets the exception that carries
\* the cryptographic library's error detail and returns NULL.
raise_OpenSSL_error == Raise("OpenSSLError")
\* PyArg_ParseFilePath() (python_utils) returning NULL: the argument
\* parser's exception is set.
ArgumentError == Raise("TypeError")

NoCalls == [storeNew |-> 0, storeFree |-> 0, storeLoad |-> 0,
            basicNew |-> 0, basicFree |-> 0, addCert |-> 0, verify |-> 0,
            bioNew |-> 0, bioFree |-> 0, bufNew |-> 0, bufFree |-> 0]

\* ---------------------------------------------------------------- inputs
\* The trust-anchor files a path can name: a missing file, a file whose
\* first certificate parses and whose second block does not (the load
\* fails after CA 1 was added), a bundle holding CA 1, a bundle holding
\* the unrelated CA 2.
TrustFiles == {NoFile,
               [loadOK |-> FALSE, cas |-> {CA1}],
               [loadOK |-> TRUE, cas |-> {CA1}],
               [loadOK |-> TRUE, cas |-> {CA2}]}
\* The argument tuple of basic_verify: a path, or something that is none.
VerifyArgs == {[isPath |-> FALSE, file |-> NoFile]}
              \cup {[isPath |-> TRUE, file |-> f] : f \in TrustFiles}
NewArgs == [npos : 0..MaxNewArgs, nkw : 0..MaxNewArgs]

\* The responses an instance can hold.  responseBytes is "absent", "basic"
\* (a decodable basic response) or "other" (bytes that are no basic
\* response); only a basic response has certificates, a signer and a
\* signature.
BasicResponses == [status : Statuses, responseBytes : {"basic"},
                   certs : SeqsUpTo({CA1, Responder}, 1),
                   signer : {CA1, Responder}, sigOK : BOOLEAN]
OtherResponses == [status : Statuses, responseBytes : {"absent", "other"},
                   certs : {<<>>}, signer : {"none"}, sigOK : {FALSE}]
Responses == BasicResponses \cup OtherResponses
PeerChains == {NullChain}
              \cup {[null |-> FALSE, certs |-> s] : s \in SeqsUpTo({Responder, Leaf}, MaxChainLen)}

Init ==
  /\ ocspResp \in Responses
  /\ peerCertChain \in PeerChains
  /\ tp_new = "nassl_OCSP_RESPONSE_new"
  /\ moduleState = "unloaded"
  /\ pc = "idle"
  /\ op = "none"
  /\ newArgs = [npos |-> 0, nkw |-> 0]
  /\ caFilePath = NoFile
  /\ respStatus = 0
  /\ trustedCAs = NullStore
  /\ basicResp = NullBasic
  /\ certNum = 0
  /\ i = 0
  /\ verifyRes = 0
  /\ memBio = NullBuf
  /\ txtLen = 0
  /\ txtBuffer = NullBuf
  /\ ocspBuf = NullBuf
  /\ ocspRespLen = 0
  /\ ret = Pending
  /\ cnt = NoCalls
  /\ derSeen = NullBuf

\* A call starts when the type is registered and no call is running.
CanCall == moduleState = "added" /\ pc \in {"idle", "done"}

\* The locals of the three methods as they are on entry.
ResetBV ==
  /\ caFilePath' = NoFile
  /\ respStatus' = 0
  /\ trustedCAs' = NullStore
  /\ basicResp' = NullBasic
  /\ certNum' = 0
  /\ i' = 0
  /\ verifyRes' = 0
ResetAT ==
  /\ memBio' = NullBuf
  /\ txtLen' = 0
  /\ txtBuffer' = NullBuf
ResetDER ==
  /\ ocspBuf' = NullBuf
  /\ ocspRespLen' = 0

\* ------------------------------------------------------ module registration
\* module_add_OCSP_RESPONSE: sets tp_new, readies the type and, unless
\* PyType_Ready failed, adds the type to the module.
module_add_OCSP_RESPONSE ==
  /\ moduleState = "unloaded"
  /\ tp_new' = "nassl_OCSP_RESPONSE_new"
  /\ \E ready \in BOOLEAN :
       moduleState' = IF ready THEN "added" ELSE "failed"
  /\ UNCHANGED <<selfVars, pc, op, newArgs, bvVars, atVars, derVars, ret, cnt, derSeen>>

\* A constructor that rejects arguments only: a bare call yields an object.
nassl_OCSP_RESPONSE_new_Result_BareCallAllowed(args) ==
  IF args.npos = 0 /\ args.nkw = 0 THEN ReturnObject ELSE Raise("NotImplementedError")

\* nassl_OCSP_RESPONSE_new: sets NotImplementedError and returns NULL.
nassl_OCSP_RESPONSE_new_Result(args) == Raise("NotImplementedError")

\* Calling the type runs its tp_new slot on the arguments.
nassl_OCSP_RESPONSE_new ==
  /\ CanCall
  /\ \E a \in NewArgs :
       /\ newArgs' = a
       /\ ret' = IF tp_new = "nassl_OCSP_RESPONSE_new"
                 THEN nassl_OCSP_RESPONSE_new_Result(a)
                 ELSE ReturnObject
  /\ op' = "new"
  /\ pc' = "done"
  /\ cnt' = NoCalls
  /\ ResetBV /\ ResetAT /\ ResetDER
  /\ UNCHANGED <<selfVars, typeVars, derSeen>>

\* ------------------------------------------------------------ as_der_bytes
\* The DER encoding of a response: SEQUENCE { ENUMERATED status,
\* [0] responseBytes OPTIONAL }, every element as tag, length, content.
CertByte(c) == CASE c = CA1 -> 1 [] c = CA2 -> 2 [] c = Responder -> 3
                 [] c = Leaf -> 4 [] OTHER -> 0
RECURSIVE CertBytes(_)
CertBytes(cs) == IF cs = <<>> THEN <<>> ELSE <<CertByte(Head(cs))>> \o CertBytes(Tail(cs))
TLV(tag, content) == <<tag, Len(content)>> \o content
DER(resp) ==
  LET basic == TLV(4, <<CertByte(resp.signer)>>)
               \o TLV(3, <<IF resp.sigOK THEN 1 ELSE 0>>)
               \o TLV(160, CertBytes(resp.certs))
      bytes == CASE resp.responseBytes = "absent" -> <<>>
                 [] resp.responseBytes = "basic" -> TLV(160, TLV(6, <<1>>) \o TLV(48, basic))
                 [] OTHER -> TLV(160, TLV(6, <<2>>) \o TLV(4, <<>>))
  IN TLV(48, TLV(10, <<resp.status>>) \o bytes)

\* i2d_OCSP_RESPONSE(resp, &buf) with buf NULL: allocates the encoding and
\* returns its length, or returns a negative value and leaves buf NULL.
i2d_OCSP_RESPONSE(resp, encOK) ==
  IF encOK THEN [len |-> Len(DER(resp)), buf |-> [null |-> FALSE, data |-> DER(resp)]]
           ELSE [len |-> -1, buf |-> NullBuf]

\* The value an int has once stored in an unsigned int.
ToUInt(n) == n % UIntMod
\* An unsigned int passed as Py_ssize_t: unchanged where Py_ssize_t is
\* wider, reinterpreted as signed where it has the same width.
ToSsize(u, wide) == IF wide \/ u < 2 ^ (UIntBits - 1) THEN u ELSE u - UIntMod

\* PyBytes_FromStringAndSize(str, size): SystemError on a negative size,
\* MemoryError when the object cannot be allocated, else size bytes copied
\* from str, or left uninitialised when str is NULL.
PyBytes_FromStringAndSize(str, size, allocOK) ==
  IF size < 0 THEN Raise("SystemError")
  ELSE IF ~allocOK THEN Raise("MemoryError")
  ELSE IF str.null THEN ReturnUninit(size)
  ELSE ReturnBytes(SubSeq(str.data, 1, size))

\* The test of line 89 on the unsigned ocspRespLen.
EncodeFailed(len) == len < 0

nassl_OCSP_RESPONSE_as_der_bytes ==
  /\ CanCall
  /\ \E encOK \in BOOLEAN, allocOK \in BOOLEAN, wide \in BOOLEAN :
       LET r == i2d_OCSP_RESPONSE(ocspResp, encOK)
           len == ToUInt(r.len)
           res == IF EncodeFailed(len) THEN Raise("ValueError")
                  ELSE PyBytes_FromStringAndSize(r.buf, ToSsize(len, wide), allocOK)
       IN /\ ocspBuf' = r.buf
          /\ ocspRespLen' = len
          /\ ret' = res
          /\ derSeen' = IF derSeen.null /\ res.kind = "bytes" /\ ~res.uninit
                        THEN [null |-> FALSE, data |-> res.data] ELSE derSeen
  /\ op' = "as_der_bytes"
  /\ pc' = "done"
  /\ cnt' = NoCalls
  /\ newArgs' = [npos |-> 0, nkw |-> 0]
  /\ ResetBV /\ ResetAT
  /\ UNCHANGED <<selfVars, typeVars>>

\* ------------------------------------------------------------ basic_verify
\* OCSP_response_status: the status of the outer envelope.
OCSP_response_status(resp) == resp.status

\* A status test that lets tryLater through.
StatusRejected_TryLaterPasses(st) == st \notin {OCSP_RESPONSE_STATUS_SUCCESSFUL, 3}

\* The test of line 113.
StatusRejected(st) == st # OCSP_RESPONSE_STATUS_SUCCESSFUL

\* X509_STORE_load_locations(store, file, NULL): adds the certificates it
\* could read to the store and returns whether the whole file was loaded.
X509_STORE_load_locations(store, file) ==
  [ok |-> file.loadOK, store |-> [store EXCEPT !.certs = @ \cup file.cas]]

\* OCSP_response_get1_basic: a freshly decoded copy of the basic response,
\* or NULL when the envelope has no response bytes or they are none.
OCSP_response_get1_basic(resp) ==
  IF resp.responseBytes = "basic"
  THEN [null |-> FALSE, certs |-> resp.certs, signer |-> resp.signer, sigOK |-> resp.sigOK]
  ELSE NullBasic

\* sk_X509_num: the number of elements, -1 for a NULL stack.
sk_X509_num(sk) == IF sk.null THEN -1 ELSE Len(sk.certs)
\* sk_X509_value(sk, k), k counted from 0.
sk_X509_value(sk, k) == sk.certs[k + 1]

\* OCSP_basic_add1_cert: appends the certificate to the response's own.
OCSP_basic_add1_cert(bs, cert) == [bs EXCEPT !.certs = Append(@, cert)]

\* Whether c chains to a trust anchor through the untrusted certificates.
ChainsTo(c, untrusted, trusted) ==
  \/ c \in trusted
  \/ Issuer(c) \in trusted
  \/ Issuer(c) \in untrusted /\ Issuer(Issuer(c)) \in trusted

\* OCSP_basic_verify(bs, NULL, store, 0): 1 when the signer is among the
\* response's certificates, the signature is the signer's and the signer
\* chains to the store; 0 when one of them fails; -1 on an internal error.
OCSP_basic_verify(bs, store, internalOK) ==
  IF ~internalOK THEN -1
  ELSE IF /\ bs.signer \in Range(bs.certs)
          /\ bs.sigOK
          /\ ChainsTo(bs.signer, Range(bs.certs), store.certs)
       THEN 1 ELSE 0

\* A result test that takes 0 for success.
VerifyFailed_OnlyNegative(res) == res < 0

\* The test of line 143.
VerifyFailed(res) == res <= 0

Bump(f) == [cnt EXCEPT ![f] = @ + 1]

\* Lines 106-109: the call starts; PyArg_ParseFilePath fails, with its
\* exception set, on an argument that is no path.
basic_verify_ParseArgs ==
  /\ CanCall
  /\ op' = "basic_verify"
  /\ cnt' = NoCalls
  /\ newArgs' = [npos |-> 0, nkw |-> 0]
  /\ ResetAT /\ ResetDER
  /\ respStatus' = 0 /\ trustedCAs' = NullStore /\ basicResp' = NullBasic
  /\ certNum' = 0 /\ i' = 0 /\ verifyRes' = 0
  /\ \E a \in VerifyArgs :
       IF a.isPath
       THEN /\ caFilePath' = a.file
            /\ ret' = Pending
            /\ pc' = "bv_status"
       ELSE /\ caFilePath' = NoFile
            /\ ret' = ArgumentError
            /\ pc' = "done"
  /\ UNCHANGED <<selfVars, typeVars, derSeen>>

\* Lines 112-117.
basic_verify_CheckStatus ==
  /\ pc = "bv_status"
  /\ respStatus' = OCSP_response_status(ocspResp)
  /\ IF StatusRejected(respStatus')
     THEN ret' = Raise("ValueError") /\ pc' = "done"
     ELSE ret' = ret /\ pc' = "bv_store_new"
  /\ UNCHANGED <<selfVars, typeVars, op, newArgs, caFilePath, trustedCAs, basicResp,
                 certNum, i, verifyRes, atVars, derVars, cnt, derSeen>>

\* Lines 120-124: X509_STORE_new returns a new empty store, or NULL.
basic_verify_StoreNew ==
  /\ pc = "bv_store_new"
  /\ \E ok \in BOOLEAN :
       IF ok
       THEN /\ trustedCAs' = [null |-> FALSE, certs |-> {}]
            /\ cnt' = Bump("storeNew")
            /\ ret' = ret
            /\ pc' = "bv_load"
       ELSE /\ trustedCAs' = NullStore
            /\ cnt' = cnt
            /\ ret' = raise_OpenSSL_error
            /\ pc' = "done"
  /\ UNCHANGED <<selfVars, typeVars, op, newArgs, caFilePath, respStatus, basicResp,
                 certNum, i, verifyRes, atVars, derVars, derSeen>>

\* Line 126: the value X509_STORE_load_locations returns is dropped.
basic_verify_LoadLocations ==
  /\ pc = "bv_load"
  /\ trustedCAs' = X509_STORE_load_locations(trustedCAs, caFilePath).store
  /\ cnt' = Bump("storeLoad")
  /\ pc' = "bv_get1_basic"
  /\ UNCHANGED <<selfVars, typeVars, op, newArgs, caFilePath, respStatus, basicResp,
                 certNum, i, verifyRes, atVars, derVars, ret, derSeen>>

\* Line 129: the result is not tested.
basic_verify_Get1Basic ==
  /\ pc = "bv_get1_basic"
  /\ basicResp' = OCSP_response_get1_basic(ocspResp)
  /\ cnt' = IF basicResp'.null THEN cnt ELSE Bump("basicNew")
  /\ pc' = "bv_num"
  /\ UNCHANGED <<selfVars, typeVars, op, newArgs, caFilePath, respStatus, trustedCAs,
                 certNum, i, verifyRes, atVars, derVars, ret, derSeen>>

\* A loop that starts at the chain's second certificate.
basic_verify_CertNum_SkipsFirst ==
  /\ pc = "bv_num"
  /\ certNum' = sk_X509_num(peerCertChain)
  /\ i' = 1
  /\ pc' = "bv_loop"
  /\ UNCHANGED <<selfVars, typeVars, op, newArgs, caFilePath, respStatus, trustedCAs,
                 basicResp, verifyRes, atVars, derVars, ret, cnt, derSeen>>

\* Lines 133-134: certNum and the loop's i = 0.
basic_verify_CertNum ==
  /\ pc = "bv_num"
  /\ certNum' = sk_X509_num(peerCertChain)
  /\ i' = 0
  /\ pc' = "bv_loop"
  /\ UNCHANGED <<selfVars, typeVars, op, newArgs, caFilePath, respStatus, trustedCAs,
                 basicResp, verifyRes, atVars, derVars, ret, cnt, derSeen>>

\* An iteration that adds the certificate to the held response as well, as
\* it would were basicResp a view of self->ocspResp and not a copy.
basic_verify_AddCert_Aliased ==
  /\ pc = "bv_loop"
  /\ i < certNum
  /\ ~basicResp.null
  /\ basicResp' = OCSP_basic_add1_cert(basicResp, sk_X509_value(peerCertChain, i))
  /\ ocspResp' = [ocspResp EXCEPT !.certs = Append(@, sk_X509_value(peerCertChain, i))]
  /\ cnt' = Bump("addCert")
  /\ i' = i + 1
  /\ pc' = "bv_loop"
  /\ UNCHANGED <<peerCertChain, typeVars, op, newArgs, caFilePath, respStatus, trustedCAs,
                 certNum, verifyRes, atVars, derVars, ret, derSeen>>

\* Lines 134-138, one iteration with a basic response to add to.
basic_verify_AddCert ==
  /\ pc = "bv_loop"
  /\ i < certNum
  /\ ~basicResp.null
  /\ basicResp' = OCSP_basic_add1_cert(basicResp, sk_X509_value(peerCertChain, i))
  /\ cnt' = Bump("addCert")
  /\ i' = i + 1
  /\ pc' = "bv_loop"
  /\ UNCHANGED <<selfVars, typeVars, op, newArgs, caFilePath, respStatus, trustedCAs,
                 certNum, verifyRes, atVars, derVars, ret, derSeen>>

\* Lines 134-138, one iteration with basicResp NULL: OCSP_basic_add1_cert
\* dereferences the null pointer.  The process is killed, or the call has
\* no effect and the loop goes on.
basic_verify_AddCertNull ==
  /\ pc = "bv_loop"
  /\ i < certNum
  /\ basicResp.null
  /\ cnt' = Bump("addCert")
  /\ \E crash \in BOOLEAN :
       IF crash THEN i' = i /\ pc' = "crashed"
                ELSE i' = i + 1 /\ pc' = "bv_loop"
  /\ UNCHANGED <<selfVars, typeVars, op, newArgs, caFilePath, respStatus, trustedCAs,
                 basicResp, certNum, verifyRes, atVars, derVars, ret, derSeen>>

\* Line 134: the loop ends.
basic_verify_LoopEnd ==
  /\ pc = "bv_loop"
  /\ ~(i < certNum)
  /\ pc' = "bv_verify"
  /\ UNCHANGED <<selfVars, typeVars, op, newArgs, bvVars, atVars, derVars, ret, cnt, derSeen>>

\* Line 140 with a basic response.
basic_verify_Verify ==
  /\ pc = "bv_verify"
  /\ ~basicResp.null
  /\ \E internalOK \in BOOLEAN :
       verifyRes' = OCSP_basic_verify(basicResp, trustedCAs, internalOK)
  /\ cnt' = Bump("verify")
  /\ pc' = "bv_free_basic"
  /\ UNCHANGED <<selfVars, typeVars, op, newArgs, caFilePath, respStatus, trustedCAs,
                 basicResp, certNum, i, atVars, derVars, ret, derSeen>>

\* Line 140 with basicResp NULL: OCSP_basic_verify dereferences the null
\* pointer.  The process is killed, or the call returns any result.
basic_verify_VerifyNull ==
  /\ pc = "bv_verify"
  /\ basicResp.null
  /\ cnt' = Bump("verify")
  /\ \E crash \in BOOLEAN, res \in {-1, 0, 1} :
       IF crash THEN verifyRes' = verifyRes /\ pc' = "crashed"
                ELSE verifyRes' = res /\ pc' = "bv_free_basic"
  /\ UNCHANGED <<selfVars, typeVars, op, newArgs, caFilePath, respStatus, trustedCAs,
                 basicResp, certNum, i, atVars, derVars, ret, derSeen>>

\* Line 141: OCSP_BASICRESP_free does nothing on NULL.
basic_verify_FreeBasic ==
  /\ pc = "bv_free_basic"
  /\ cnt' = IF basicResp.null THEN cnt ELSE Bump("basicFree")
  /\ pc' = "bv_free_store"
  /\ UNCHANGED <<selfVars, typeVars, op, newArgs, bvVars, atVars, derVars, ret, derSeen>>

\* A release of the store on the success path only.
basic_verify_FreeStore_LeaksOnFailure ==
  /\ pc = "bv_free_store"
  /\ cnt' = IF trustedCAs.null \/ VerifyFailed(verifyRes) THEN cnt ELSE Bump("storeFree")
  /\ pc' = "bv_result"
  /\ UNCHANGED <<selfVars, typeVars, op, newArgs, bvVars, atVars, derVars, ret, derSeen>>

\* Line 142.
basic_verify_FreeStore ==
  /\ pc = "bv_free_store"
  /\ cnt' = IF trustedCAs.null THEN cnt ELSE Bump("storeFree")
  /\ pc' = "bv_result"
  /\ UNCHANGED <<selfVars, typeVars, op, newArgs, bvVars, atVars, derVars, ret, derSeen>>

\* Lines 143-147.
basic_verify_Result ==
  /\ pc = "bv_result"
  /\ ret' = IF VerifyFailed(verifyRes) THEN raise_OpenSSL_error ELSE ReturnNone
  /\ pc' = "done"
  /\ UNCHANGED <<selfVars, typeVars, op, newArgs, bvVars, atVars, derVars, cnt, derSeen>>

nassl_OCSP_RESPONSE_basic_verify ==
  \/ basic_verify_ParseArgs
  \/ basic_verify_CheckStatus
  \/ basic_verify_StoreNew
  \/ basic_verify_LoadLocations
  \/ basic_verify_Get1Basic
  \/ basic_verify_CertNum
  \/ basic_verify_AddCert
  \/ basic_verify_AddCertNull
  \/ basic_verify_LoopEnd
  \/ basic_verify_Verify
  \/ basic_verify_VerifyNull
  \/ basic_verify_FreeBasic
  \/ basic_verify_FreeStore
  \/ basic_verify_Result

\* ----------------------------------------------------------------- as_text
StatusName(st) ==
  CASE st = 0 -> "successful" [] st = 1 -> "malformedrequest"
    [] st = 2 -> "internalerror" [] st = 3 -> "trylater"
    [] st = 5 -> "sigrequired" [] OTHER -> "unauthorized"

\* OCSP_RESPONSE_print(bio, resp, 0): the lines written to the sink.
OCSP_RESPONSE_print(resp) ==
  LET head == <<"OCSP Response Data:", StatusName(resp.status)>>
  IN CASE resp.responseBytes = "absent" -> head
       [] resp.responseBytes = "other" -> head \o <<"(unknown response type)">>
       [] OTHER -> head \o <<"Basic OCSP Response", "Responder Id:", resp.signer,
                              "Signature:", IF resp.sigOK THEN "good" ELSE "bad",
                              "Certificates:">> \o resp.certs

\* BIO_pending: the number of bytes the sink holds.
BIO_pending(bio) == Len(bio.data)
\* BIO_read(bio, buf, n): the first n bytes of the sink.
BIO_read(bio, n) == SubSeq(bio.data, 1, n)

\* Lines 54-58: the call starts; BIO_new returns a new memory sink, or NULL.
as_text_BioNew ==
  /\ CanCall
  /\ op' = "as_text"
  /\ newArgs' = [npos |-> 0, nkw |-> 0]
  /\ ResetBV /\ ResetDER
  /\ txtLen' = 0 /\ txtBuffer' = NullBuf
  /\ \E ok \in BOOLEAN :
       IF ok
       THEN /\ memBio' = [null |-> FALSE, data |-> <<>>]
            /\ cnt' = [NoCalls EXCEPT !.bioNew = 1]
            /\ ret' = Pending
            /\ pc' = "at_print"
       ELSE /\ memBio' = NullBuf
            /\ cnt' = NoCalls
            /\ ret' = raise_OpenSSL_error
            /\ pc' = "done"
  /\ UNCHANGED <<selfVars, typeVars, derSeen>>

\* Line 60.
as_text_Print ==
  /\ pc = "at_print"
  /\ memBio' = [memBio EXCEPT !.data = @ \o OCSP_RESPONSE_print(ocspResp)]
  /\ pc' = "at_malloc"
  /\ UNCHANGED <<selfVars, typeVars, op, newArgs, bvVars, txtLen, txtBuffer,
                 derVars, ret, cnt, derSeen>>

\* A failed PyMem_Malloc that returns without releasing the sink.
as_text_Malloc_LeaksSink ==
  /\ pc = "at_malloc"
  /\ txtLen' = ToUInt(BIO_pending(memBio))
  /\ \E ok \in BOOLEAN :
       IF ok
       THEN /\ txtBuffer' = [null |-> FALSE, data |-> <<>>]
            /\ cnt' = Bump("bufNew")
            /\ ret' = ret
            /\ pc' = "at_read"
       ELSE /\ txtBuffer' = NullBuf
            /\ cnt' = cnt
            /\ ret' = Raise("MemoryError")
            /\ pc' = "done"
  /\ UNCHANGED <<selfVars, typeVars, op, newArgs, bvVars, memBio, derVars, derSeen>>

\* Lines 63-69: PyMem_Malloc returns txtLen uninitialised bytes, or NULL.
as_text_Malloc ==
  /\ pc = "at_malloc"
  /\ txtLen' = ToUInt(BIO_pending(memBio))
  /\ \E ok \in BOOLEAN :
       IF ok
       THEN /\ txtBuffer' = [null |-> FALSE, data |-> <<>>]
            /\ cnt' = Bump("bufNew")
            /\ ret' = ret
            /\ pc' = "at_read"
       ELSE /\ txtBuffer' = NullBuf
            /\ cnt' = Bump("bioFree")
            /\ ret' = Raise("MemoryError")
            /\ pc' = "done"
  /\ UNCHANGED <<selfVars, typeVars, op, newArgs, bvVars, memBio, derVars, derSeen>>

\* Line 71.
as_text_Read ==
  /\ pc = "at_read"
  /\ txtBuffer' = [txtBuffer EXCEPT !.data = BIO_read(memBio, txtLen)]
  /\ memBio' = [memBio EXCEPT !.data = SubSeq(@, txtLen + 1, Len(@))]
  /\ pc' = "at_bytes"
  /\ UNCHANGED <<selfVars, typeVars, op, newArgs, bvVars, txtLen, derVars, ret, cnt, derSeen>>

\* Lines 74-78: the bytes object (NULL with MemoryError when it cannot be
\* allocated) is returned after the buffer and the sink are released.
as_text_Return ==
  /\ pc = "at_bytes"
  /\ \E allocOK \in BOOLEAN, wide \in BOOLEAN :
       ret' = PyBytes_FromStringAndSize(txtBuffer, ToSsize(txtLen, wide), allocOK)
  /\ cnt' = [cnt EXCEPT !.bufFree = @ + 1, !.bioFree = @ + 1]
  /\ pc' = "done"
  /\ UNCHANGED <<selfVars, typeVars, op, newArgs, bvVars, atVars, derVars, derSeen>>

nassl_OCSP_RESPONSE_as_text ==
  \/ as_text_BioNew
  \/ as_text_Print
  \/ as_text_Malloc
  \/ as_text_Read
  \/ as_text_Return

Next ==
  \/ module_add_OCSP_RESPONSE
  \/ nassl_OCSP_RESPONSE_new
  \/ nassl_OCSP_RESPONSE_as_text
  \/ nassl_OCSP_RESPONSE_as_der_bytes
  \/ nassl_OCSP_RESPONSE_basic_verify

Spec == Init /\ [][Next]_vars

\* ------------------------------------------------------------------ claims
Returned(o) == op = o /\ pc = "done"
ChainCerts == IF peerCertChain.null THEN <<>> ELSE peerCertChain.certs
\* basic_verify has passed line 126 with a file that could not be loaded.
LoadFailed == op = "basic_verify" /\ cnt.storeLoad = 1 /\ ~caFilePath.loadOK
\* basic_verify has passed line 129 and the extraction yielded NULL.
ExtractFailed ==
  /\ op = "basic_verify" /\ cnt.storeLoad = 1
  /\ pc # "bv_get1_basic" /\ basicResp.null

\* C1: once the trust-anchor file failed to load, basic_verify never runs
\* signature verification, and it returns a failure.
C1_LoadFailureStopsTheCall ==
  LoadFailed => /\ cnt.verify = 0
                /\ pc = "done" => ret.kind = "NULL" /\ ret.exc # "OpenSSLError"

\* C2: on a response whose status is not successful, basic_verify given a
\* path fails with the ValueError of the status test, having created no
\* trust store, loaded nothing, extracted no basic response, added no
\* certificate and never called the signature verification.
C2_StatusGate ==
  (op = "basic_verify" /\ ocspResp.status # OCSP_RESPONSE_STATUS_SUCCESSFUL)
    => /\ pc \in {"bv_status", "done"}
       /\ cnt = NoCalls
       /\ trustedCAs = NullStore /\ basicResp = NullBasic
       /\ pc = "done" /\ ret.exc # "TypeError" => ret = Raise("ValueError")
C2_Witness ==
  /\ Returned("basic_verify") /\ ocspResp.status = 3
  /\ caFilePath = [loadOK |-> TRUE, cas |-> {CA1}]
  /\ ret = Raise("ValueError")

\* C3: basic_verify returns None only when the signature verification ran
\* and returned a positive result; whenever it ran and returned a result
\* that is not positive, the call fails with the OpenSSL error.
C3_SuccessOnlyWhenVerified ==
  Returned("basic_verify")
    => /\ ret.kind = "None" => cnt.verify = 1 /\ verifyRes > 0
       /\ cnt.verify = 1 /\ verifyRes <= 0 => ret = Raise("OpenSSLError")
       /\ ret.kind \in {"None", "NULL"}
C3_Witness ==
  /\ Returned("basic_verify") /\ cnt.verify = 1 /\ ~basicResp.null
  /\ verifyRes = -1 /\ ret = Raise("OpenSSLError")

\* C4: once the extraction of the basic response yielded NULL, no peer
\* certificate is added to it, the signature verification is not run on
\* it, and the call returns a failure.
C4_ExtractFailureStopsTheCall ==
  ExtractFailed => /\ cnt.addCert = 0 /\ cnt.verify = 0
                   /\ pc # "crashed"
                   /\ pc = "done" => ret.kind = "NULL"

\* C5: basic_verify never releases a trust store or a basic response it
\* did not create, creates at most one of each, and has released each one
\* it created exactly once when it returns.
C5_ReleasedOnEveryExit ==
  op = "basic_verify"
    => /\ cnt.storeFree <= cnt.storeNew /\ cnt.storeNew <= 1
       /\ cnt.basicFree <= cnt.basicNew /\ cnt.basicNew <= 1
       /\ pc = "done" => /\ cnt.storeFree = cnt.storeNew
                         /\ cnt.basicFree = cnt.basicNew
C5_Witness ==
  /\ Returned("basic_verify") /\ ret = Raise("OpenSSLError")
  /\ cnt.storeNew = 1 /\ cnt.storeFree = 1
  /\ cnt.basicNew = 1 /\ cnt.basicFree = 1

\* C6: when the encoder reported a negative length (and left the buffer
\* NULL), as_der_bytes fails with the ValueError of line 91 and returns no
\* bytes.
C6_EncodeFailureRaises ==
  (Returned("as_der_bytes") /\ ocspBuf.null) => ret = Raise("ValueError")

\* C7: the registered type's tp_new is nassl_OCSP_RESPONSE_new, and a call
\* of the type, whatever its positional and keyword arguments, returns NULL
\* with NotImplementedError, never an object.
C7_NewAlwaysFails ==
  /\ moduleState = "added" => tp_new = "nassl_OCSP_RESPONSE_new"
  /\ Returned("new") => ret = Raise("NotImplementedError")
C7_Witness ==
  /\ Returned("new") /\ newArgs = [npos |-> 1, nkw |-> 1]
  /\ ret = Raise("NotImplementedError")

\* C8: while basic_verify holds an extracted basic response, its
\* certificates are the embedded ones followed by the first i certificates
\* of the peer chain, one addition each; the signature verification runs
\* on the embedded certificates followed by the whole chain (nothing added
\* for an empty or NULL chain).  So a response with a good signature whose
\* signer chains to the loaded anchors, is not embedded and is in the peer
\* chain returns None unless the verification hit an internal error, and a
\* response whose signer is not embedded fails with the OpenSSL error when
\* the chain is empty or NULL.
C8_ChainAugmentation ==
  (op = "basic_verify" /\ ~basicResp.null)
    => /\ i <= Len(ChainCerts) /\ cnt.addCert = i
       /\ basicResp.certs = ocspResp.certs \o SubSeq(ChainCerts, 1, i)
       /\ cnt.verify = 1 => i = Len(ChainCerts)
       /\ ( /\ pc = "done"
            /\ ocspResp.signer \notin Range(ocspResp.certs)
            /\ ocspResp.signer \in Range(ChainCerts)
            /\ ocspResp.sigOK
            /\ Issuer(ocspResp.signer) \in caFilePath.cas
            /\ verifyRes # -1 ) => ret = ReturnNone
       /\ ( /\ pc = "done"
            /\ ocspResp.signer \notin Range(ocspResp.certs)
            /\ ChainCerts = <<>> ) => ret = Raise("OpenSSLError")
C8_Witness ==
  /\ Returned("basic_verify") /\ ret = ReturnNone
  /\ ocspResp.signer = Responder /\ ocspResp.certs = <<>>
  /\ ChainCerts = <<Leaf, Responder>>
  /\ basicResp.certs = <<Leaf, Responder>>

\* What the signature verification returns, short of an internal error, as
\* a function of the held response, the peer chain and the trust file.
VerifyOutcome(resp, chain, file) ==
  OCSP_basic_verify([null |-> FALSE, certs |-> resp.certs \o chain,
                     signer |-> resp.signer, sigOK |-> resp.sigOK],
                    [null |-> FALSE, certs |-> file.cas], TRUE)

\* C9: no step of as_text, as_der_bytes or basic_verify changes the held
\* response or the attached peer chain; every as_der_bytes that returns
\* encoded bytes returns the bytes the first one returned, and the result
\* of a signature verification that ran on an extracted response without
\* an internal error is a function of the held response, the chain and the
\* trust file.
C9_InstanceUnchanged ==
  [][ /\ ocspResp' = ocspResp
      /\ peerCertChain' = peerCertChain
      /\ (op' = "as_der_bytes" /\ ret'.kind = "bytes" /\ ~ret'.uninit)
           => ret'.data = derSeen'.data
      /\ (op' = "basic_verify" /\ pc' = "bv_free_basic" /\ ~basicResp'.null
            /\ verifyRes' # -1)
           => verifyRes' = VerifyOutcome(ocspResp', ChainCerts', caFilePath')
    ]_vars
C9_Witness ==
  /\ Returned("basic_verify") /\ cnt.addCert = 2 /\ ret = ReturnNone
  /\ ~derSeen.null /\ derSeen.data = DER(ocspResp)
  /\ ocspResp.certs = <<Responder>> /\ Len(ChainCerts) = 2

====
